---- MODULE Spec2Model ----
(***************************************************************************)
(* Model of custom_components/gtfs_rt/sensor.py: the GTFS-realtime sensor  *)
(* platform.  One PublicTransportData store is shared by the sensors; its  *)
(* throttled update() fetches the vehicle-position feed, then the          *)
(* trip-update feed, projects the trip updates into departure_times,       *)
(* sorts it and assigns it to self.info.  Sensors read self.info and       *)
(* render the minutes until the first two arrivals.                        *)
(*                                                                         *)
(* update() is modelled step by step (one action per statement group) so   *)
(* that reads of self.info interleave with a running refresh, as they do   *)
(* when the platform polls update() on a worker thread.                    *)
(***************************************************************************)
EXTENDS Integers, Sequences, FiniteSets, TLC

\* ------------------------------------------------------------------ bounds
\* Clock readings: MaxShortTicks steps of a second within each of
\* MaxLongTicks + 1 throttle intervals
MaxShortTicks == 1
MaxLongTicks == 1
\* Entities of a vehicle-position feed
MaxVehicles == 2
\* Entities of a trip-update feed: over the life of a store (Spec), and
\* where one refresh is examined in depth (SpecProjection)
MaxTrips == 1
MaxProjectedTrips == 2

\* ------------------------------------------------------- program constants
\* MIN_TIME_BETWEEN_UPDATES = datetime.timedelta(seconds=60)
MIN_TIME_BETWEEN_UPDATES == 60
\* due_in_minutes divides the seconds by 60
SecondsPerMinute == 60
\* the offset of local time from UTC, in seconds: datetime.fromtimestamp and
\* dt_util.now() are read in one zone of fixed offset
UtcOffset == 3600

None == "None"
\* The timestamp that is None: host._throttle[id][1] before the first run
NoTime == 0 - 1
EmptyDict == [k \in {} |-> None]

VARIABLES
    bound,                  \* the bounds on the inputs: [trips, longTicks]
    clock,                  \* the wall clock: time.time(), utcnow()
    vehicle_position_url,   \* self._vehicle_position_url is configured
    info,                   \* self.info: route -> stop -> list of StopDetails
    throttle,               \* host._throttle[id][1]: time of the last completed run
    pc,                     \* position of the running update(); "idle": lock free
    positions,              \* update(): positions
    vehicles_trips,         \* update(): vehicles_trips
    occupancy,              \* update(): occupancy
    departure_times,        \* _update_route_statuses: departure_times
    feed,                   \* _update_route_statuses: feed.entity
    ei,                     \* the entity the loop over feed.entity is at
    si,                     \* the stop the loop over stop_time_update is at
    started,                \* the clock when the loop over feed.entity began
    vstatus,                \* _get_vehicle_positions: response.status_code
    tstatus,                \* _update_route_statuses: response.status_code
    lastAttempt,            \* start of the latest update() that ran the method
    builtNow,               \* `started` of the refresh that built self.info
    exception               \* the exception that is leaving update(), or None

vars == <<bound, clock, vehicle_position_url, info, throttle, pc, positions,
          vehicles_trips, occupancy, departure_times, feed, ei, si, started,
          vstatus, tstatus, lastAttempt, builtNow, exception>>

locals == <<positions, vehicles_trips, occupancy, departure_times, feed, ei,
            si, started, vstatus, tstatus>>

\* ------------------------------------------------------------ dictionaries
Put(d, k, v) == [x \in (DOMAIN d) \cup {k} |-> IF x = k THEN v ELSE d[x]]

DictGet(d, k, default) == IF k \in DOMAIN d THEN d[k] ELSE default

\* ------------------------------------------------------------------- time
\* datetime.datetime.fromtimestamp(ts): the naive local time of a timestamp
FromTimestamp(ts) == ts + UtcOffset

\* dt_util.now().replace(tzinfo=None): the naive local time of the clock
NowLocal == clock + UtcOffset

\* int(x / 60): Python's int() truncates toward zero
TruncDivFloor(a, b) == a \div b

TruncDiv(a, b) == IF a >= 0 THEN a \div b ELSE -((-a) \div b)

due_in_minutes_floor(timestamp) == TruncDivFloor(timestamp - NowLocal, SecondsPerMinute)

due_in_minutes(timestamp) == TruncDiv(timestamp - NowLocal, SecondsPerMinute)

ClockValues ==
    {1 + MIN_TIME_BETWEEN_UPDATES * a + b :
        a \in 0..bound.longTicks, b \in 0..MaxShortTicks}

TickSizes == {1, MIN_TIME_BETWEEN_UPDATES}

\* -------------------------------------------------------------- occupancy
OccupancyNames ==
    <<"EMPTY", "MANY_SEATS_AVAILABLE", "FEW_SEATS_AVAILABLE",
      "STANDING_ROOM_ONLY", "CRUSHED_STANDING_ROOM_ONLY", "FULL",
      "NOT_ACCEPTING_PASSENGERS", "NO_DATA_AVAILABLE", "NOT_BOARDABLE">>

\* OccupancyStatus(code): the member of that value, ValueError when none has it
OccupancyValid(code) == code \in 0..(Len(OccupancyNames) - 1)

OccupancyName(code) == OccupancyNames[code + 1]

\* ------------------------------------------------------------------ feeds
\* Sequences over S of length at most n
SeqUpTo(S, n) == UNION {[1..k -> S] : k \in 0..n}

\* FeedEntity.vehicle as the loop of _get_vehicle_positions reads it from the
\* parsed message (occupancy_status: the number the message gives on read).
\* An entity without a vehicle reads as the default message: route_id "".
Vehicle(id, route_id, trip_id, position, occupancy_status) ==
    [vehicle_id |-> id, route_id |-> route_id, trip_id |-> trip_id,
     position |-> position, occupancy_status |-> occupancy_status]

VehicleEntities ==
    { Vehicle("V1", "R1", "T1", "P1", 3),
      Vehicle("V2", "R1", "T2", "P2", 2),
      Vehicle("V3", "",   "T3", "P3", 0),
      Vehicle("V2", "R2", "T1", "P4", 99) }

VehicleFeeds == SeqUpTo(VehicleEntities, MaxVehicles)

\* FeedEntity as the loop of _update_route_statuses reads it
StopTimeUpdate(stop_id, time) == [stop_id |-> stop_id, arrival_time |-> time]

TripUpdate(route_id, trip_id, vehicle_id, stop_time_update) ==
    [has_trip_update |-> TRUE, route_id |-> route_id, trip_id |-> trip_id,
     vehicle_id |-> vehicle_id, stop_time_update |-> stop_time_update]

NoTripUpdate ==
    [has_trip_update |-> FALSE, route_id |-> "", trip_id |-> "",
     vehicle_id |-> "", stop_time_update |-> <<>>]

\* The trip-update entities a feed served at time t may carry: arrival times
\* after t, at t, and absent (read as 0)
TripEntities(t) ==
    { TripUpdate("R1", "T1", "",   <<StopTimeUpdate("S1", t + 2),
                                     StopTimeUpdate("S1", t + 1)>>),
      TripUpdate("R1", "T9", "",   <<StopTimeUpdate("S1", t + 1),
                                     StopTimeUpdate("S1", t),
                                     StopTimeUpdate("S2", 0)>>),
      TripUpdate("R1", "T1", "V2", <<StopTimeUpdate("S2", t + 1)>>),
      TripUpdate("R2", "T2", "",   <<>>),
      NoTripUpdate }

TripFeeds(t) == SeqUpTo(TripEntities(t), bound.trips)

\* What requests.get gives: a transport error (the call raises), or a
\* response with a status code and a body; the body is a serialized
\* FeedMessage or bytes that do not parse
\* response.content: FeedMessage.ParseFromString either fills feed.entity or
\* raises DecodeError
Content(entities) == [parses |-> TRUE, entity |-> entities]

Garbage == [parses |-> FALSE, entity |-> <<>>]

ConnectionError == [raises |-> TRUE, status_code |-> 0, content |-> Garbage]

Response(status_code, content) ==
    [raises |-> FALSE, status_code |-> status_code, content |-> content]

\* The bodies of a response whose status is not 200: an error page, which
\* does not parse, or no body at all, which parses as a FeedMessage without
\* entities
ErrorBodies == {Garbage, Content(<<>>)}

Responses(feeds) ==
    {ConnectionError}
        \cup {Response(200, c) : c \in {Content(f) : f \in feeds} \cup {Garbage}}
        \cup {Response(500, c) : c \in ErrorBodies}

VehicleResponses == Responses(VehicleFeeds)

TripResponses(t) == Responses(TripFeeds(t))

\* ----------------------------------------------------------- VehicleIndex
\* The loop of _get_vehicle_positions over feed.entity from entity i on.
\* acc: [positions, vehicles_trips, occupancy, raised]
RECURSIVE IndexVehicles(_, _, _)
IndexVehicles(entities, i, acc) ==
    IF i > Len(entities) THEN acc
    ELSE LET vehicle == entities[i] IN
         IF vehicle.route_id = ""
         THEN IndexVehicles(entities, i + 1, acc)
         ELSE IF ~OccupancyValid(vehicle.occupancy_status)
         THEN [acc EXCEPT !.raised = TRUE]
         ELSE IndexVehicles(entities, i + 1,
                [positions |-> Put(acc.positions, vehicle.vehicle_id, vehicle.position),
                 vehicles_trips |-> Put(acc.vehicles_trips, vehicle.trip_id, vehicle.vehicle_id),
                 occupancy |-> Put(acc.occupancy, vehicle.vehicle_id,
                                   OccupancyName(vehicle.occupancy_status)),
                 raised |-> FALSE])

EmptyIndex ==
    [positions |-> EmptyDict, vehicles_trips |-> EmptyDict,
     occupancy |-> EmptyDict, raised |-> FALSE]

\* ------------------------------------------------------- ArrivalProjector
StopDetails(arrival_time, position, occupancy_name) ==
    [arrival_time |-> arrival_time, position |-> position,
     occupancy |-> occupancy_name]

\* vehicle_id = entity.trip_update.vehicle.id
\* if not vehicle_id: vehicle_id = vehicles_trips.get(trip_id)
ResolveVehicleTripFirst(entity, vt) ==
    IF entity.trip_id \in DOMAIN vt THEN vt[entity.trip_id] ELSE entity.vehicle_id

ResolveVehicle(entity, vt) ==
    IF entity.vehicle_id = "" THEN DictGet(vt, entity.trip_id, None)
    ELSE entity.vehicle_id

\* int(stop.arrival.time) > int(time.time())
IsFutureOrNow(time, t) == time >= t

IsFuture(time, t) == time > t

\* One pass of the loop over entity.trip_update.stop_time_update: the stop
\* is compared with t, the reading of time.time() of this pass
ProjectStop(dt, route_id, stop, vehicle_id, vp, vo, t) ==
    LET stop_id == stop.stop_id
        byStop == dt[route_id]
        byStop1 == IF DictGet(byStop, stop_id, <<>>) = <<>>
                   THEN Put(byStop, stop_id, <<>>)
                   ELSE byStop
        details == StopDetails(FromTimestamp(stop.arrival_time),
                               DictGet(vp, vehicle_id, None),
                               DictGet(vo, vehicle_id, None))
        byStop2 == IF IsFuture(stop.arrival_time, t)
                   THEN Put(byStop1, stop_id, Append(byStop1[stop_id], details))
                   ELSE byStop1
    IN Put(dt, route_id, byStop2)

\* The loops of _update_route_statuses from stop j of entity i up to the next
\* stop-time update to compare (j = 0: entity i is not entered yet).  An
\* entity without trip_update is passed over; entering a trip update adds its
\* route to the table.  Gives the table and the place of that stop-time
\* update, or an entity past the last when the loops are over.
RECURSIVE Seek(_, _, _, _)
Seek(dt, entities, i, j) ==
    IF i > Len(entities) THEN [dt |-> dt, ei |-> i, si |-> 0]
    ELSE IF ~entities[i].has_trip_update THEN Seek(dt, entities, i + 1, 0)
    ELSE IF j = 0
         THEN Seek(IF entities[i].route_id \in DOMAIN dt THEN dt
                   ELSE Put(dt, entities[i].route_id, EmptyDict),
                   entities, i, 1)
    ELSE IF j > Len(entities[i].stop_time_update) THEN Seek(dt, entities, i + 1, 0)
    ELSE [dt |-> dt, ei |-> i, si |-> j]

\* list.sort(key=lambda t: t.arrival_time): a stable sort, here by insertion
RECURSIVE InsertSorted(_, _)
InsertSorted(sorted, x) ==
    IF sorted = <<>> THEN <<x>>
    ELSE IF sorted[Len(sorted)].arrival_time <= x.arrival_time
         THEN Append(sorted, x)
         ELSE Append(InsertSorted(SubSeq(sorted, 1, Len(sorted) - 1), x),
                     sorted[Len(sorted)])

RECURSIVE SortList(_)
SortList(list) ==
    IF list = <<>> THEN <<>>
    ELSE InsertSorted(SortList(SubSeq(list, 1, Len(list) - 1)), list[Len(list)])

NoSort(dt) == dt

\* for route in departure_times: for stop in departure_times[route]: sort
SortAll(dt) ==
    [route \in DOMAIN dt |-> [stop \in DOMAIN dt[route] |-> SortList(dt[route][stop])]]

\* ------------------------------------------------------------- Presenter
\* self.data.info.get(self._route, {}).get(self._stop, [])
GetNextBuses(table, route, stop) ==
    DictGet(DictGet(table, route, EmptyDict), stop, <<>>)

\* PublicTransportSensor.state
State(route, stop) ==
    LET next_buses == GetNextBuses(info, route, stop) IN
    IF Len(next_buses) > 0 THEN due_in_minutes(next_buses[1].arrival_time) ELSE "-"

\* extra_state_attributes[ATTR_NEXT_UP_DUE_IN]; "-" stands for the absent key
NextUpDueIn(route, stop) ==
    LET next_buses == GetNextBuses(info, route, stop) IN
    IF Len(next_buses) > 1 THEN due_in_minutes(next_buses[2].arrival_time) ELSE "-"

\* The (route, stop) pairs of the configured departures
Departures ==
    { <<"R1", "S1">>, <<"R1", "S2">>, <<"R2", "S1">>, <<"R9", "S1">> }

\* ------------------------------------------------------------------ state
\* PublicTransportData.__init__: self.info = {}; no throttle record yet
Start ==
    /\ clock = 1
    /\ vehicle_position_url \in BOOLEAN
    /\ info = EmptyDict
    /\ throttle = NoTime
    /\ pc = "idle"
    /\ positions = EmptyDict
    /\ vehicles_trips = EmptyDict
    /\ occupancy = EmptyDict
    /\ departure_times = EmptyDict
    /\ feed = <<>>
    /\ ei = 0
    /\ si = 0
    /\ started = NoTime
    /\ vstatus = 0
    /\ tstatus = 0
    /\ lastAttempt = NoTime
    /\ builtNow = NoTime
    /\ exception = None

Init ==
    /\ bound = [trips |-> MaxTrips, longTicks |-> MaxLongTicks]
    /\ Start

\* One throttle interval, longer feeds
InitProjection ==
    /\ bound = [trips |-> MaxProjectedTrips, longTicks |-> 0]
    /\ Start

\* The frame of update() is gone once it returns or raises
DropLocals ==
    /\ positions' = EmptyDict
    /\ vehicles_trips' = EmptyDict
    /\ occupancy' = EmptyDict
    /\ departure_times' = EmptyDict
    /\ feed' = <<>>
    /\ ei' = 0
    /\ si' = 0
    /\ started' = NoTime
    /\ vstatus' = 0
    /\ tstatus' = 0

\* A statement of update() raises: the frame is gone and the exception is on
\* its way through the Throttle wrapper to the caller
Raise(raised) ==
    /\ pc' = "raise"
    /\ exception' = raised
    /\ DropLocals
    /\ UNCHANGED <<bound, clock, vehicle_position_url, info, throttle, lastAttempt, builtNow>>

\* The exception leaves the wrapper: its finally releases the lock, and
\* throttle[1] is not written; nothing in the sensor catches it
Propagate ==
    /\ pc = "raise"
    /\ pc' = "idle"
    /\ exception' = None
    /\ UNCHANGED <<bound, clock, vehicle_position_url, info, throttle, locals,
                   lastAttempt, builtNow>>

\* Throttle: force = not throttle[1]; the method runs when
\* force or utcnow() - throttle[1] > self.min_time
ThrottleOpen ==
    throttle = NoTime \/ clock - throttle > MIN_TIME_BETWEEN_UPDATES

\* PublicTransportSensor.update -> PublicTransportData.update through the
\* Throttle wrapper, up to the call of the wrapped method
Update ==
    \/ \* throttle[0].acquire(False) fails: an update is running
       /\ pc # "idle"
       /\ UNCHANGED vars
    \/ \* within min_time of the last completed run
       /\ pc = "idle"
       /\ ~ThrottleOpen
       /\ UNCHANGED vars
    \/ \* the method runs; without a vehicle url its first line binds
       \* positions, vehicles_trips, occupancy to [{}, {}, {}]
       /\ pc = "idle"
       /\ ThrottleOpen
       /\ pc' = IF vehicle_position_url THEN "vehicles" ELSE "trips"
       /\ lastAttempt' = clock
       /\ UNCHANGED <<bound, clock, vehicle_position_url, info, throttle, locals,
                      builtNow, exception>>

\* _get_vehicle_positions
GetVehiclePositions ==
    /\ pc = "vehicles"
    /\ \E response \in VehicleResponses :
        IF response.raises THEN Raise("ConnectionError")
        ELSE IF ~response.content.parses THEN Raise("DecodeError")
        ELSE LET index == IndexVehicles(response.content.entity, 1, EmptyIndex) IN
             IF index.raised THEN Raise("ValueError")
             ELSE /\ positions' = index.positions
                  /\ vehicles_trips' = index.vehicles_trips
                  /\ occupancy' = index.occupancy
                  /\ vstatus' = response.status_code
                  /\ pc' = "trips"
                  /\ UNCHANGED <<bound, clock, vehicle_position_url, info, throttle,
                                 departure_times, feed, ei, si, started,
                                 tstatus, lastAttempt, builtNow, exception>>

\* _update_route_statuses up to the first stop-time update: the fetch, the
\* parse, and the loops as far as the first reading of time.time()
Build ==
    /\ pc = "trips"
    /\ \E response \in TripResponses(clock) :
        IF response.raises THEN Raise("ConnectionError")
        ELSE IF ~response.content.parses THEN Raise("DecodeError")
        ELSE LET at == Seek(EmptyDict, response.content.entity, 1, 0) IN
             /\ feed' = response.content.entity
             /\ started' = clock
             /\ tstatus' = response.status_code
             /\ departure_times' = at.dt
             /\ ei' = at.ei
             /\ si' = at.si
             /\ pc' = IF at.ei > Len(response.content.entity) THEN "sort"
                      ELSE "project"
             /\ UNCHANGED <<bound, clock, vehicle_position_url, info, throttle,
                            positions, vehicles_trips, occupancy, vstatus,
                            lastAttempt, builtNow, exception>>

\* The table after the pass for stop si of entity ei, which reads time.time(),
\* and the place of the next stop-time update
Pass ==
    Seek(ProjectStop(departure_times, feed[ei].route_id,
                     feed[ei].stop_time_update[si],
                     ResolveVehicle(feed[ei], vehicles_trips),
                     positions, occupancy, clock),
         feed, ei, si + 1)

ProjectInPlace ==
    /\ pc = "project"
    /\ departure_times' = Pass.dt
    /\ info' = Pass.dt
    /\ ei' = Pass.ei
    /\ si' = Pass.si
    /\ pc' = IF Pass.ei > Len(feed) THEN "sort" ELSE "project"
    /\ UNCHANGED <<bound, clock, vehicle_position_url, throttle, positions,
                   vehicles_trips, occupancy, feed, started, vstatus, tstatus,
                   lastAttempt, builtNow, exception>>

\* _update_route_statuses: one pass of the loop over stop_time_update, with
\* the loop steps up to the next pass; the table is built in the local
\* departure_times
Project ==
    /\ pc = "project"
    /\ departure_times' = Pass.dt
    /\ ei' = Pass.ei
    /\ si' = Pass.si
    /\ pc' = IF Pass.ei > Len(feed) THEN "sort" ELSE "project"
    /\ UNCHANGED <<bound, clock, vehicle_position_url, info, throttle, positions,
                   vehicles_trips, occupancy, feed, started, vstatus, tstatus,
                   lastAttempt, builtNow, exception>>

\* _update_route_statuses: the loops that sort every list
Sort ==
    /\ pc = "sort"
    /\ departure_times' = SortAll(departure_times)
    /\ pc' = "install"
    /\ UNCHANGED <<bound, clock, vehicle_position_url, info, throttle, positions,
                   vehicles_trips, occupancy, feed, ei, si, started, vstatus,
                   tstatus, lastAttempt, builtNow, exception>>

\* _update_route_statuses: self.info = departure_times
Install ==
    /\ pc = "install"
    /\ info' = departure_times
    /\ builtNow' = started
    /\ pc' = "return"
    /\ UNCHANGED <<bound, clock, vehicle_position_url, throttle, locals, lastAttempt,
                   exception>>

\* The method returned: Throttle writes throttle[1] = utcnow() and releases
Return ==
    /\ pc = "return"
    /\ throttle' = clock
    /\ pc' = "idle"
    /\ DropLocals
    /\ UNCHANGED <<bound, clock, vehicle_position_url, info, lastAttempt, builtNow,
                   exception>>

\* Time passes
Tick ==
    /\ \E d \in TickSizes :
        /\ clock + d \in ClockValues
        /\ clock' = clock + d
    /\ UNCHANGED <<bound, vehicle_position_url, info, throttle, pc, locals,
                   lastAttempt, builtNow, exception>>

Next ==
    \/ Update
    \/ GetVehiclePositions
    \/ Build
    \/ Project
    \/ Sort
    \/ Install
    \/ Return
    \/ Propagate
    \/ Tick

Spec == Init /\ [][Next]_vars

SpecProjection == InitProjection /\ [][Next]_vars

\* ================================================================= claims
\* datetime.timestamp(): the timestamp a naive local time stands for
ToTimestamp(datetime) == datetime - UtcOffset

\* The lists of a table
Lists(table) ==
    UNION {{table[route][stop] : stop \in DOMAIN table[route]} : route \in DOMAIN table}

Range(list) == {list[i] : i \in 1..Len(list)}

Routes == {"R1", "R2", "R9", ""}

Stops == {"S1", "S2", "S9"}

\* A table read through _get_next_buses, over every route and stop
Readable(table) == [key \in Routes \X Stops |-> GetNextBuses(table, key[1], key[2])]

\* C1: a refresh whose vehicle-position or trip-update response carries a
\* status other than 200 leaves self.info, and so every get(route, stop),
\* as it was before the refresh.
C1_FailureRetention ==
    [][(tstatus \notin {0, 200} \/ vstatus \notin {0, 200})
          => Readable(info') = Readable(info)]_vars

\* C2: no failed fetch (transport error) and no body that does not parse, of
\* either feed, makes update() end with an exception: every call returns to
\* its caller.
C2_NeverRaises == exception \notin {"ConnectionError", "DecodeError"}

\* C3: an update() that starts less than MIN_TIME_BETWEEN_UPDATES after the
\* start of the previous update() that ran (whether that one returned or
\* failed) does not run the method: it fetches nothing.
C3_RateLimit ==
    [][(pc = "idle" /\ pc' # "idle" /\ lastAttempt # NoTime)
          => clock - lastAttempt >= MIN_TIME_BETWEEN_UPDATES]_vars

\* Every arrival of the table is later than the timestamp t
AllFuture(table, t) ==
    \A list \in Lists(table) : \A i \in 1..Len(list) :
        ToTimestamp(list[i].arrival_time) > t

\* What one step may do to the list of (route, stop) while the feed is
\* projected: leave it, or append the arrival of the stop-time update at
\* hand when its time is later than the reading of the clock
Appended(route, stop) ==
    LET update == feed[ei].stop_time_update[si]
        old == GetNextBuses(departure_times, route, stop)
        new == GetNextBuses(departure_times', route, stop) IN
    \/ new = old
    \/ /\ route = feed[ei].route_id
       /\ stop = update.stop_id
       /\ update.arrival_time > clock
       /\ Len(new) = Len(old) + 1
       /\ SubSeq(new, 1, Len(old)) = old
       /\ ToTimestamp(new[Len(new)].arrival_time) = update.arrival_time

\* C4: an arrival enters the table being built only when its time is
\* strictly later than the reading of time.time() taken for its stop-time
\* update, and the arrivals already there stay as they are; so every arrival
\* of self.info is later than the time its refresh began to project the feed
\* (no reading of that refresh is earlier), a stop-time update at or before
\* that time, or without an arrival time (0), is not in the table, and the
\* table installed is the one built.
C4_FutureOnly ==
    [][/\ pc = "project" => \A route \in Routes : \A stop \in Stops :
                                 Appended(route, stop)
       /\ pc' \in {"project", "sort", "install", "return"}
             => AllFuture(departure_times', started')
       /\ AllFuture(info', builtNow')
       /\ pc' = "return" => info' = departure_times']_vars

C4_Witness ==
    /\ pc = "return"
    /\ clock > started
    /\ \E i \in 1..Len(feed) : \E j \in 1..Len(feed[i].stop_time_update) :
          /\ feed[i].stop_time_update[j].arrival_time <= started
          /\ feed[i].stop_time_update[j].stop_id = "S1"
    /\ Len(GetNextBuses(info, "R1", "S1")) > 0

IsSorted(list) ==
    \A i \in 1..Len(list) : \A j \in i..Len(list) :
        list[i].arrival_time <= list[j].arrival_time

\* C5: every list of self.info is non-decreasing in arrival_time, whatever
\* the order of the entities and stop-time updates in the feed.
C5_Sorted == \A list \in Lists(info) : IsSorted(list)

C5_Witness ==
    /\ pc = "return"
    /\ Len(feed) > 1
    /\ \E i \in 1..Len(feed) : \E j \in 1..Len(feed[i].stop_time_update) :
       \E k \in j..Len(feed[i].stop_time_update) :
          /\ feed[i].stop_time_update[j].stop_id = feed[i].stop_time_update[k].stop_id
          /\ feed[i].stop_time_update[j].arrival_time
                > feed[i].stop_time_update[k].arrival_time
          /\ feed[i].stop_time_update[k].arrival_time > started
    /\ Len(GetNextBuses(info, "R1", "S1")) > 2

\* The vehicle of a trip update as C6 states it
ClaimedVehicle(entity) ==
    IF entity.vehicle_id # "" THEN entity.vehicle_id
    ELSE IF entity.trip_id \in DOMAIN vehicles_trips
         THEN vehicles_trips[entity.trip_id]
         ELSE None

\* The arrival C6 expects from stop-time update j of trip update i
ClaimedArrival(i, j) ==
    LET vehicle == ClaimedVehicle(feed[i]) IN
    [arrival_time |-> FromTimestamp(feed[i].stop_time_update[j].arrival_time),
     position |-> IF vehicle \in DOMAIN positions THEN positions[vehicle] ELSE None,
     occupancy |-> IF vehicle \in DOMAIN occupancy THEN occupancy[vehicle] ELSE None]

\* The arrivals C6 expects at (route, stop) from the stop-time updates of
\* this refresh's feed that are later than t
ClaimedArrivals(route, stop, t) ==
    UNION { { ClaimedArrival(i, j) :
                j \in { k \in 1..Len(feed[i].stop_time_update) :
                          /\ feed[i].stop_time_update[k].stop_id = stop
                          /\ feed[i].stop_time_update[k].arrival_time > t } } :
            i \in { n \in 1..Len(feed) :
                      feed[n].has_trip_update /\ feed[n].route_id = route } }

\* C6: when a refresh has installed its table, the arrivals at every (route,
\* stop) carry the position and occupancy of the trip update's vehicle: the
\* explicit vehicle id when non-empty, else the one vehicles_trips gives for
\* the trip id; both unset when there is none or the snapshot lacks it.
\* Every stop-time update later than the clock has its arrival there, and
\* nothing else is there than arrivals of stop-time updates later than the
\* start of the projection.
C6_VehicleCorrelation ==
    pc = "return" =>
        \A route \in Routes : \A stop \in Stops :
            /\ Range(GetNextBuses(info, route, stop))
                  \subseteq ClaimedArrivals(route, stop, started)
            /\ ClaimedArrivals(route, stop, clock)
                  \subseteq Range(GetNextBuses(info, route, stop))

C6_Witness ==
    /\ pc = "return"
    /\ "T1" \in DOMAIN vehicles_trips
    /\ \E a \in Range(GetNextBuses(info, "R1", "S2")) : a.position = None
    /\ \E a \in Range(GetNextBuses(info, "R1", "S1")) : a.position # None

\* C7: an occupancy code outside 0..8 on a vehicle in service does not end the
\* refresh: the entity is left out and the refresh goes on; and code 3 is
\* STANDING_ROOM_ONLY.
C7_AnomalySkipped ==
    /\ exception # "ValueError"
    /\ OccupancyName(3) = "STANDING_ROOM_ONLY"

\* C8: self.info changes only in the one assignment at the end of a refresh,
\* to the table that refresh built in full (the loops are over, no later
\* stop-time update is missing) and sorted; at every other point of a refresh
\* a reader sees the table of before.
C8_AtomicReplacement ==
    [][info' # info =>
          /\ pc = "install" /\ pc' = "return"
          /\ ei > Len(feed)
          /\ info' = departure_times
          /\ \A route \in Routes : \A stop \in Stops :
                ClaimedArrivals(route, stop, clock)
                    \subseteq Range(GetNextBuses(info', route, stop))
          /\ \A list \in Lists(info') : IsSorted(list)]_vars

C8_Witness ==
    /\ pc = "sort"
    /\ info # EmptyDict
    /\ departure_times # SortAll(departure_times)
    /\ info # SortAll(departure_times)

\* C9: when the vehicle-position fetch fails (also with a status other than
\* 200 and any body), the refresh goes no further: no trip-update fetch.
C9_VehicleFailureAborts ==
    (vehicle_position_url /\ pc \in {"trips", "project", "sort", "install", "return"})
        => vstatus = 200

\* The due-in values of a sensor are not negative
DueInNotNegative(route, stop) ==
    LET next_buses == GetNextBuses(info, route, stop) IN
    /\ Len(next_buses) > 0 => State(route, stop) >= 0
    /\ Len(next_buses) > 1 => NextUpDueIn(route, stop) >= 0

\* C10 as stated: at every time the state and the 'Next bus due in' attribute
\* of every sensor are "-" or at least 0.
C10_NeverNegative == \A d \in Departures : DueInNotNegative(d[1], d[2])

\* C10 amended: they are "-" or at least 0 as long as the clock is at most 60
\* seconds past the time the refresh that built the table began to project
\* its feed.
C10_NotNegativeWhileFresh ==
    clock - builtNow <= SecondsPerMinute
        => \A d \in Departures : DueInNotNegative(d[1], d[2])

C10_Witness ==
    /\ clock - builtNow = SecondsPerMinute
    /\ \E d \in Departures :
          /\ Len(GetNextBuses(info, d[1], d[2])) > 0
          /\ GetNextBuses(info, d[1], d[2])[1].arrival_time < NowLocal
          /\ State(d[1], d[2]) = 0

====
